---- MODULE Spec2Model ----
(***************************************************************************)
(* Model of src/Plotter.py: the Plotter class, which either reviews a list *)
(* of detected chart patterns interactively (plot and the key handler      *)
(* _on_key_press) or writes one image per pattern (save).                  *)
(*                                                                         *)
(* Strings that the code builds by concatenation or formatting are         *)
(* sequences of tokens; the digit buffer idx_str is a sequence of one-     *)
(* character keys and int() is computed from it, base ten.                 *)
(***************************************************************************)
EXTENDS Integers, Sequences, FiniteSets, TLC

VARIABLES
    save_folder,  \* self.save_folder: NoFolder (None) or a folder name
    data,         \* self.data: [none |-> TRUE] for None, else the instance list
    len,          \* self.len = len(data) - 1, the last index
    idx,          \* self.idx, the position
    idx_str,      \* self.idx_str, the buffered digits of a jump
    plot_args,    \* self.plot_args, the arguments handed to mpf.plot
    fig,          \* the open figure the key handler is connected to, or NoFig
    alert,        \* the right-hand title of self.main_ax, written by _alert
    files,        \* the images written by save, one per path
    nSaves,       \* how many save calls have been made
    lastOp,       \* the operation that ran last: "init", "plot", "key", "save"
    lastKey,      \* event.key of the last key event, NoKey when the last operation was none
    streak,       \* presses of lastKey in a row since the last plot() (saturating)
    prevIdx,      \* self.idx at the start of the last operation
    prevStr,      \* self.idx_str at the start of the last operation
    plotCalls,    \* how many times the last operation entered plot()
    plotted,      \* the index of the record the last plot() resolved, NoneIdx when none
    err,          \* the exception the last operation raised, "none" when it returned
    plotArg,      \* the idx argument of the last plot() call by the caller
    saveArg,      \* the dct argument of the last save() call
    saved,        \* what save has written so far: the sym, pattern and path of each image
    win,          \* one view selection of plot: mode, series, pattern bounds, series shown
    ann,          \* one _annotations call: its arguments and the labels it drew
    thr           \* the save() calls in flight on one exporter, one per thread

vars == <<save_folder, data, len, idx, idx_str, plot_args, fig, alert, files,
          nSaves, lastOp, lastKey, streak, prevIdx, prevStr, plotCalls,
          plotted, err, plotArg, saveArg, saved, win, ann, thr>>

\* the state of the parts of plot and save that are modelled on their own
partVars == <<win, ann, thr>>

----------------------------------------------------------------------------
(* Bounds of the model *)

MaxData == 3      \* longest instance list of a review session
MaxDigits == 2    \* longest digit buffer
MaxExtra == 2     \* most extra lines of a record
MaxLines == 2     \* most primary lines of a record
MaxSaves == 2     \* most save calls of one exporter
MaxStreak == 2    \* where the count of repeated keys saturates

----------------------------------------------------------------------------
(* Values *)

NoneIdx == -1                      \* the default idx=None of plot
NoFolder == "None"
NoKey == "-"
NoFig == [open |-> FALSE, rec |-> NoneIdx, alines |-> <<>>,
          colors |-> [single |-> FALSE, seq |-> <<>>],
          title |-> <<>>, left |-> <<>>]

\* the digit keys pressed in the model
DigitKeys == {"0", "1", "2"}
CommandKeys == {"n", "p", "j", "escape"}
\* keys the handler returns on; what the toolkit binds to them is not in the source
OtherKeys == {"q", "x"}
Keys == DigitKeys \cup CommandKeys \cup OtherKeys

DigitVal(k) ==
    CASE k = "0" -> 0 [] k = "1" -> 1 [] k = "2" -> 2 [] k = "3" -> 3
      [] k = "4" -> 4 [] k = "5" -> 5 [] k = "6" -> 6 [] k = "7" -> 7
      [] k = "8" -> 8 [] k = "9" -> 9

TriangleKinds == {"Symmetric", "Ascending", "Descending"}
TrendlineKinds == {"UPTL"}
OtherKinds == {"VCP"}
Patterns == TriangleKinds \cup TrendlineKinds \cup OtherKinds

Symbols == {"tcs", "TCS", "INFY"}
\* symbols of the export runs: those above and one spelled with an underscore
ExportSymbols == Symbols \cup {"M_M"}
Upper(s) == CASE s = "tcs" -> "TCS" [] s = "TCS" -> "TCS" [] s = "INFY" -> "INFY"
              [] s = "M_M" -> "M_M"

\* loader.get(sym): the symbols the loader has a series for
LoaderSyms == {"TCS", "M_M"}
LoaderGet(sym) == IF sym \in LoaderSyms THEN [present |-> TRUE, sym |-> sym]
                  ELSE [present |-> FALSE, sym |-> sym]

SeriesMissing_Unchecked(df) == FALSE

\* if df is None
SeriesMissing(df) == ~df.present

timeframe == "daily"
Capitalize(tf) == CASE tf = "daily" -> "Daily" [] OTHER -> tf

ExtraLines(n) == [k \in 1..n |-> [of |-> "extra_lines", k |-> k]]
PrimaryLines(m) == [k \in 1..m |-> [of |-> "lines", k |-> k]]

Records ==
    { [sym |-> s, pattern |-> p, extra_lines |-> ExtraLines(n), lines |-> PrimaryLines(m)] :
        s \in Symbols, p \in Patterns, n \in 0..MaxExtra, m \in 0..MaxLines }

Rec(s, p, n, m) ==
    [sym |-> s, pattern |-> p, extra_lines |-> ExtraLines(n), lines |-> PrimaryLines(m)]

\* no save() call yet
NoDct == [sym |-> "", pattern |-> "", extra_lines |-> <<>>, lines |-> <<>>]

\* The records the instance lists of review sessions are built from
Catalogue == { Rec("tcs", "Symmetric", 2, 2), Rec("TCS", "VCP", 1, 2),
               Rec("INFY", "UPTL", 0, 1) }

DataLists == UNION { [1..k -> Catalogue] : k \in 1..MaxData }

----------------------------------------------------------------------------
(* Plotter.__init__ *)

InitPlotArgs(interactive) ==
    [type |-> "candle", style |-> "tradingview", right |-> 6,
     alines |-> <<>>, colors |-> [single |-> FALSE, seq |-> <<>>],
     title |-> <<>>, figscale |-> IF interactive THEN 10 ELSE 0,
     returnfig |-> interactive, savefig |-> <<>>]

Construct(d, folder) ==
    /\ save_folder = folder
    /\ data = IF folder # NoFolder THEN [none |-> TRUE, list |-> <<>>]
              ELSE [none |-> FALSE, list |-> d]
    /\ len = IF folder # NoFolder THEN NoneIdx ELSE Len(d) - 1
    /\ idx = 0
    /\ idx_str = <<>>
    /\ plot_args = InitPlotArgs(folder = NoFolder)
    /\ fig = NoFig
    /\ alert = <<>>
    /\ files = {}
    /\ nSaves = 0
    /\ lastOp = "init"
    /\ lastKey = NoKey
    /\ streak = 0
    /\ prevIdx = 0
    /\ prevStr = <<>>
    /\ plotCalls = 0
    /\ plotted = NoneIdx
    /\ err = "none"
    /\ plotArg = NoneIdx
    /\ saveArg = NoDct
    /\ saved = {}

NoWin == [mode |-> "default", df |-> <<>>, start |-> 0, end |-> 0,
          view |-> <<>>, done |-> FALSE]
NoAnn == [df |-> <<>>, lines |-> <<>>, last_close |-> 0, labels |-> <<>>,
          done |-> FALSE, err |-> "none"]
NoThr == <<>>

\* nothing of plot or save is under way
Idle == win = NoWin /\ ann = NoAnn /\ thr = NoThr

Init == (\E d \in DataLists : Construct(d, NoFolder)) /\ Idle

----------------------------------------------------------------------------
(* Overlay of a record: the lines and colours handed to mpf.plot *)

IsTriangle(pattern) == pattern \in TriangleKinds

\* ("green",) + ("midnightblue",) * (n - 1); a negative repeat count gives ()
GreenThenBlue(n) == <<"green">> \o [k \in 1..(n - 1) |-> "midnightblue"]

PlotLines_PrimaryFirst(dct) ==
    IF IsTriangle(dct.pattern) THEN dct.extra_lines
    ELSE dct.lines \o dct.extra_lines

\* plot: lines 133-138
PlotLines(dct) ==
    IF IsTriangle(dct.pattern) THEN dct.extra_lines
    ELSE dct.extra_lines \o dct.lines

PlotColors(pattern, lines) ==
    IF IsTriangle(pattern) THEN [single |-> TRUE, seq |-> <<"midnightblue">>]
    ELSE [single |-> FALSE, seq |-> GreenThenBlue(Len(lines))]

\* save: lines 65 and 72-75
SaveLines(dct) == dct.lines

SaveColors_PerSegment(pattern, lines) ==
    [single |-> FALSE, seq |-> GreenThenBlue(Len(lines))]

SaveColors(pattern, lines) ==
    IF IsTriangle(pattern) THEN [single |-> TRUE, seq |-> <<"midnightblue">>]
    ELSE [single |-> FALSE, seq |-> GreenThenBlue(Len(lines))]

Title(sym, pattern) == <<sym, "-", pattern, "-", Capitalize(timeframe)>>

\* f"{self.idx} of {self.len}"
Stmt_OneBased(i, last) == <<i + 1, "of", last + 1>>

Stmt(i, last) == <<i, "of", last>>

\* the characters of the strings that end up in a file name
Chars(str) ==
    CASE str = "TCS" -> <<"T", "C", "S">>
      [] str = "INFY" -> <<"I", "N", "F", "Y">>
      [] str = "M_M" -> <<"M", "_", "M">>
      [] str = "Symmetric" -> <<"S", "y", "m", "m", "e", "t", "r", "i", "c">>
      [] str = "Ascending" -> <<"A", "s", "c", "e", "n", "d", "i", "n", "g">>
      [] str = "Descending" -> <<"D", "e", "s", "c", "e", "n", "d", "i", "n", "g">>
      [] str = "UPTL" -> <<"U", "P", "T", "L">>
      [] str = "VCP" -> <<"V", "C", "P">>
      [] str = "daily" -> <<"d", "a", "i", "l", "y">>

SavePath_NoPattern(folder, sym, pattern) ==
    <<folder, "/">> \o Chars(sym) \o <<"_">> \o Chars(timeframe) \o <<".png">>

\* self.save_folder / f"{sym}_{pattern}_{self.timeframe}.png"
SavePath(folder, sym, pattern) ==
    <<folder, "/">> \o Chars(sym) \o <<"_">> \o Chars(pattern) \o <<"_">>
        \o Chars(timeframe) \o <<".png">>

----------------------------------------------------------------------------
(* Plotter.plot *)

\* if idx: self.idx = idx
PlotIdx(cur, i) == IF i # NoneIdx /\ i # 0 THEN i ELSE cur

\* self.data[i]: the 1-based place of list index i, counting a negative i from
\* the end; 0 when the index is out of range (IndexError)
ListPos(list, i) ==
    IF 0 <= i /\ i < Len(list) THEN i + 1
    ELSE IF i < 0 /\ -i <= Len(list) THEN Len(list) + i + 1
    ELSE 0

\* plot(i) entered with self.idx = cur and every figure closed
DoPlot(cur, i) ==
    /\ plotCalls' = 1
    /\ IF data.none
       THEN /\ err' = "TypeError"
            /\ idx' = cur
            /\ plotted' = NoneIdx
            /\ fig' = NoFig
            /\ UNCHANGED <<plot_args, alert>>
       ELSE LET at == PlotIdx(cur, i)
                pos == ListPos(data.list, at)
                dct == data.list[pos]
                sym == Upper(dct.sym)
                df == LoaderGet(sym)
                lines == PlotLines(dct)
                colors == PlotColors(dct.pattern, lines)
                args == [plot_args EXCEPT !.title = Title(sym, dct.pattern),
                                          !.alines = lines,
                                          !.colors = colors]
            IN  /\ idx' = at
                /\ plotted' = at
                /\ IF pos = 0
                   THEN /\ err' = "IndexError"
                        /\ fig' = NoFig
                        /\ UNCHANGED <<plot_args, alert>>
                   ELSE IF SeriesMissing(df)
                   THEN /\ err' = "ValueError"
                        /\ fig' = NoFig
                        /\ UNCHANGED <<plot_args, alert>>
                   ELSE /\ err' = "none"
                        /\ plot_args' = args
                        /\ fig' = [open |-> TRUE, rec |-> at,
                                   alines |-> args.alines, colors |-> args.colors,
                                   title |-> args.title, left |-> Stmt(at, len)]
                        /\ alert' = <<>>

\* the caller calls plot(i) while no figure is blocking
Plot(i) ==
    /\ ~fig.open
    /\ lastOp' = "plot"
    /\ lastKey' = NoKey
    /\ streak' = 0
    /\ prevIdx' = idx
    /\ prevStr' = idx_str
    /\ plotArg' = i
    /\ DoPlot(idx, i)
    /\ UNCHANGED <<save_folder, data, len, idx_str, files, nSaves, saveArg, saved>>
    /\ UNCHANGED partVars

PlotInputs == IF data.none THEN {NoneIdx} ELSE {NoneIdx} \cup (0..len)

----------------------------------------------------------------------------
(* Plotter._on_key_press *)

RECURSIVE IntOf(_)
\* int(self.idx_str)
IntOf(s) == IF s = <<>> THEN 0
            ELSE 10 * IntOf(SubSeq(s, 1, Len(s) - 1)) + DigitVal(s[Len(s)])

IsDigit(key) == key \in DigitKeys

Buffered_Front(s, key) == <<key>> \o s

\* self.idx_str += key
Buffered(s, key) == Append(s, key)

\* f"{self.idx_str}j"
JumpStatus(s) == s \o <<"j">>

JumpTooFar_Inclusive(n, last) == n >= last

\* if idx > self.len
JumpTooFar(n, last) == n > last

AtLastChart_Strict(i, last) == i > last

\* if self.idx >= self.len
AtLastChart(i, last) == i >= last

AtFirstChart_Negative(i) == i < 0

\* if self.idx == 0
AtFirstChart(i) == i = 0

NextIdx_Skip(i) == i + 2

\* self.idx += 1
NextIdx(i) == i + 1

\* self.idx -= 1
PrevIdx(i) == i - 1

\* return self._alert(string): no render, only the right-hand title changes
Alert(string) ==
    /\ alert' = string
    /\ plotCalls' = 0
    /\ plotted' = NoneIdx
    /\ err' = "none"
    /\ UNCHANGED <<idx, plot_args, fig>>

\* a bare return
Return ==
    /\ plotCalls' = 0
    /\ plotted' = NoneIdx
    /\ err' = "none"
    /\ UNCHANGED <<idx, idx_str, plot_args, fig, alert>>

\* self.idx_str = ""; plt.close("all"); self.plot()
Replot(to) ==
    /\ idx_str' = <<>>
    /\ DoPlot(to, NoneIdx)

OnKeyPress(key) ==
    IF IsDigit(key)
    THEN /\ idx_str' = Buffered(idx_str, key)
         /\ Alert(JumpStatus(Buffered(idx_str, key)))
    ELSE IF key \notin {"n", "p", "j", "escape"}
    THEN Return
    ELSE IF key = "escape"
    THEN /\ idx_str' = <<>>
         /\ Alert(<<>>)
    ELSE IF key = "j" /\ idx_str = <<>>
    THEN Return
    ELSE IF key = "j" /\ JumpTooFar(IntOf(idx_str), len)
    THEN /\ idx_str' = <<>>
         /\ Alert(<<>>)
    ELSE IF key = "j"
    THEN Replot(IntOf(idx_str))
    ELSE IF key = "n" /\ AtLastChart(idx, len)
    THEN /\ Alert(<<"At Last Chart">>)
         /\ UNCHANGED idx_str
    ELSE IF key = "n"
    THEN Replot(NextIdx(idx))
    ELSE IF AtFirstChart(idx)
    THEN /\ Alert(<<"At First Chart">>)
         /\ UNCHANGED idx_str
    ELSE Replot(PrevIdx(idx))

\* a key event reaches the handler connected to the open figure
KeyPress(key) ==
    /\ fig.open
    /\ IsDigit(key) => Len(idx_str) < MaxDigits
    /\ lastOp' = "key"
    /\ lastKey' = key
    /\ streak' = IF lastKey # key \/ plotCalls # 0 THEN 1
                 ELSE IF streak < MaxStreak THEN streak + 1 ELSE streak
    /\ prevIdx' = idx
    /\ prevStr' = idx_str
    /\ plotArg' = NoneIdx
    /\ OnKeyPress(key)
    /\ UNCHANGED <<save_folder, data, len, files, nSaves, saveArg, saved>>
    /\ UNCHANGED partVars

----------------------------------------------------------------------------
(* Plotter.save *)

\* mpf.plot(df, **self.plot_args) with savefig set: the image written
Image(args) ==
    [path |-> args.savefig, alines |-> args.alines, colors |-> args.colors,
     title |-> args.title]

Save(dct) ==
    /\ ~fig.open
    /\ nSaves < MaxSaves
    /\ nSaves' = nSaves + 1
    /\ lastOp' = "save"
    /\ lastKey' = NoKey
    /\ streak' = 0
    /\ prevIdx' = idx
    /\ prevStr' = idx_str
    /\ plotCalls' = 0
    /\ plotted' = NoneIdx
    /\ plotArg' = NoneIdx
    /\ saveArg' = dct
    /\ UNCHANGED <<save_folder, data, len, idx, idx_str, fig, alert>>
    /\ UNCHANGED partVars
    /\ IF save_folder = NoFolder
       THEN /\ err' = "AssertionError"
            /\ UNCHANGED <<plot_args, files, saved>>
       ELSE LET sym == Upper(dct.sym)
                df == LoaderGet(sym)
                lines == SaveLines(dct)
                colors == SaveColors(dct.pattern, lines)
                save_path == SavePath(save_folder, sym, dct.pattern)
                args == [plot_args EXCEPT !.title = Title(sym, dct.pattern),
                                          !.figscale = 12,
                                          !.savefig = save_path,
                                          !.right = 8,
                                          !.alines = lines,
                                          !.colors = colors]
            IN  IF SeriesMissing(df)
                THEN /\ err' = "ValueError"
                     /\ UNCHANGED <<plot_args, files, saved>>
                ELSE /\ err' = "none"
                     /\ plot_args' = args
                     /\ files' = {f \in files : f.path # save_path}
                                    \cup {Image(args)}
                     /\ saved' = saved \cup {[sym |-> dct.sym, pattern |-> dct.pattern,
                                              path |-> save_path]}

----------------------------------------------------------------------------
(* The review session *)

PlotCall == \E i \in PlotInputs : Plot(i)

KeyEvent == \E key \in Keys : KeyPress(key)

Next == PlotCall \/ KeyEvent

Spec == Init /\ [][Next]_vars

----------------------------------------------------------------------------
(* Rendering of single records: a session over one record, or an exporter *)

Folder == "out"

InitRender ==
    \/ (\E dct \in Records : Construct(<<dct>>, NoFolder)) /\ Idle
    \/ Construct(<<>>, Folder) /\ Idle

\* one save() call per Plotter, with any record
SaveCall == nSaves = 0 /\ \E dct \in Records : Save(dct)

NextRender == PlotCall \/ SaveCall

SpecRender == InitRender /\ [][NextRender]_vars

----------------------------------------------------------------------------
(* Export runs: one exporter saving records of every symbol and pattern *)

ExportRecords == { Rec(s, p, 0, 1) : s \in ExportSymbols, p \in Patterns }

InitExport == Construct(<<>>, Folder) /\ Idle

NextExport == \E dct \in ExportRecords : Save(dct)

SpecExport == InitExport /\ [][NextExport]_vars

----------------------------------------------------------------------------
(* The view of plot in "expand" mode: lines 115-131 *)

MaxEdge == 1      \* how far from a clamping point the pattern bounds are taken

Margin == 120

Max(a, b) == IF a >= b THEN a ELSE b
Min(a, b) == IF a <= b THEN a ELSE b

\* the timestamp of the bar at a position of the full series
BarTime(pos) == 1000 + pos

\* a series of L bars, as its index
Series(L) == [k \in 1..L |-> BarTime(k - 1)]

\* df.index.get_loc(t), a slice over equal timestamps taken at its start
GetLoc(df, t) == CHOOSE pos \in 0..(Len(df) - 1) :
                     /\ df[pos + 1] = t
                     /\ \A q \in 0..(pos - 1) : df[q + 1] # t

\* a slice bound as Python reads it: negative counts from the end, then clipped
SliceBound(x, L) == IF x < 0 THEN Max(L + x, 0) ELSE Min(x, L)

\* df.iloc[a:b]
Iloc(df, a, b) ==
    LET lo == SliceBound(a, Len(df))
        hi == SliceBound(b, Len(df))
    IN  [k \in 1..(hi - lo) |-> df[lo + k]]

ExpandStart_Unclamped(start) == start - Margin

\* start = max(start - 120, 0)
ExpandStart(start) == Max(start - Margin, 0)

\* end = min(end + 120, len(df))
ExpandEnd(end, L) == Min(end + Margin, L)

ViewOf(mode, df, start_t, end_t) ==
    IF mode = "expand"
    THEN LET start == ExpandStart(GetLoc(df, start_t))
             end == ExpandEnd(GetLoc(df, end_t), Len(df))
         IN  Iloc(df, start, end)
    ELSE df

\* plot narrows the series it was given
SelectView ==
    /\ ~win.done
    /\ win.df # <<>>
    /\ win' = [win EXCEPT !.view = ViewOf(win.mode, win.df, win.start, win.end),
                          !.done = TRUE]
    /\ UNCHANGED <<save_folder, data, len, idx, idx_str, plot_args, fig, alert, files,
                   nSaves, lastOp, lastKey, streak, prevIdx, prevStr, plotCalls,
                   plotted, err, plotArg, saveArg, saved, ann, thr>>

\* series lengths below, at and above twice the margin
SeriesLens == {1, 2, Margin, Margin + 1, 2 * Margin - 1, 2 * Margin, 2 * Margin + 1,
               3 * Margin}

\* positions of a series of L bars next to where the clamps start to act
EdgePositions(L) ==
    { pos \in 0..(L - 1) :
        \E c \in {0, Margin, L - Margin, L - 1} :
            pos - c <= MaxEdge /\ c - pos <= MaxEdge }

InitWindow ==
    /\ Construct(<<Rec("TCS", "VCP", 0, 1)>>, NoFolder)
    /\ \E L \in SeriesLens, m \in {"default", "expand"} :
          \E i \in EdgePositions(L), j \in EdgePositions(L) :
              /\ i <= j
              /\ win = [mode |-> m, df |-> Series(L), start |-> BarTime(i),
                        end |-> BarTime(j), view |-> <<>>, done |-> FALSE]
    /\ ann = NoAnn
    /\ thr = NoThr

NextWindow == SelectView

SpecWindow == InitWindow /\ [][NextWindow]_vars

----------------------------------------------------------------------------
(* Plotter._annotations *)

MaxPoints == 13   \* longest annotation source

annotate_txt == <<"A", "B", "C", "D", "E", "F", "G", "H", "I", "J", "K", "L", "M">>

\* annotate_txt[i] can be read: i is an index of the string (none is negative here)
HasText(i) == 0 <= i /\ i < Len(annotate_txt)

TextAt(i) == IF HasText(i) THEN annotate_txt[i + 1] ELSE "?"

\* the prices of the bar at a position of the series
High(pos) == 300 + pos
Low(pos) == 100 + pos
Close(pos) == 200 + pos

\* x, y = line[0] if isinstance(line[0], (list, tuple)) else line
Anchor(line) == IF line.kind = "segment" THEN line.pts[1] ELSE line.pt

\* annotate_txt[len(lines)]
LastLetterIndex(lines) == Len(lines)

PointLetterIndex_FromOne(i) == i + 1

\* annotate_txt[i]
PointLetterIndex(i) == i

\* the label of the last bar: lines 188-199
LastLabel(df, lines, last_close) ==
    LET last_pos == GetLoc(df, df[Len(df)])
        price == IF last_close = 0 THEN Close(last_pos) ELSE last_close
    IN  [text |-> TextAt(LastLetterIndex(lines)), pos |-> last_pos, price |-> price,
         offset |-> <<10, -10>>]

\* the label of the point or segment with index i: lines 203-211
PointLabel(df, lines, i) ==
    LET xy == Anchor(lines[i + 1])
        x == xy[1]
        y == xy[2]
        loc == IF y = High(GetLoc(df, x)) THEN 5 ELSE -10
    IN  [text |-> TextAt(PointLetterIndex(i)), pos |-> GetLoc(df, x), price |-> y,
         offset |-> <<0, loc>>]

\* how many points are labelled before annotate_txt[i] fails, all of them if none does
LabelledPoints(lines) ==
    IF \A i \in 0..(Len(lines) - 1) : HasText(PointLetterIndex(i)) THEN Len(lines)
    ELSE CHOOSE n \in 0..(Len(lines) - 1) :
             /\ ~HasText(PointLetterIndex(n))
             /\ \A i \in 0..(n - 1) : HasText(PointLetterIndex(i))

\* one call of _annotations(df, lines, last_close)
Annotate ==
    /\ ~ann.done
    /\ ann.df # <<>>
    /\ IF ~HasText(LastLetterIndex(ann.lines))
       THEN ann' = [ann EXCEPT !.done = TRUE, !.err = "IndexError"]
       ELSE LET n == LabelledPoints(ann.lines)
            IN  ann' = [ann EXCEPT
                          !.done = TRUE,
                          !.err = IF n < Len(ann.lines) THEN "IndexError" ELSE "none",
                          !.labels = <<LastLabel(ann.df, ann.lines, ann.last_close)>>
                                       \o [k \in 1..n |-> PointLabel(ann.df, ann.lines, k - 1)]]
    /\ UNCHANGED <<save_folder, data, len, idx, idx_str, plot_args, fig, alert, files,
                   nSaves, lastOp, lastKey, streak, prevIdx, prevStr, plotCalls,
                   plotted, err, plotArg, saveArg, saved, win, thr>>

\* the annotation source with k entries: entry n sits on the bar at position
\* n - 1, is a touch point or a line as kinds says, at the high or the low of
\* its bar as prices says
Source(k, kinds, prices) ==
    [n \in 1..k |->
        LET pt == <<BarTime(n - 1),
                    IF prices = "high" \/ (prices = "mixed" /\ n % 2 = 1)
                    THEN High(n - 1) ELSE Low(n - 1)>>
        IN  IF kinds = "points" \/ (kinds = "mixed" /\ n % 2 = 1)
            THEN [kind |-> "point", pt |-> pt, pts |-> <<>>]
            ELSE [kind |-> "segment", pt |-> <<>>, pts |-> <<pt, <<BarTime(n), Low(n)>>>>]]

InitAnnotate ==
    /\ Construct(<<Rec("TCS", "VCP", 0, 1)>>, NoFolder)
    /\ \E k \in 0..MaxPoints, kinds \in {"points", "segments", "mixed"},
          prices \in {"high", "low", "mixed"}, y_close \in {0, 250} :
          ann = [df |-> Series(MaxPoints + 2), lines |-> Source(k, kinds, prices),
                 last_close |-> y_close, labels |-> <<>>, done |-> FALSE, err |-> "none"]
    /\ win = NoWin
    /\ thr = NoThr

NextAnnotate == Annotate

SpecAnnotate == InitAnnotate /\ [][NextAnnotate]_vars

----------------------------------------------------------------------------
(* save() called from several threads on one exporter: lines 46 and 59-94 *)

Threads == {"t1", "t2"}

ThreadRecords == { Rec("TCS", "VCP", 0, 2), Rec("M_M", "Symmetric", 0, 1),
                   Rec("TCS", "UPTL", 0, 1), Rec("INFY", "VCP", 0, 1) }

NoThread == [pc |-> "idle", dct |-> NoDct, df |-> [present |-> FALSE, sym |-> ""],
             colors |-> [single |-> FALSE, seq |-> <<>>], save_path |-> <<>>,
             drawn |-> [df |-> [present |-> FALSE, sym |-> ""],
                        args |-> InitPlotArgs(FALSE)]]

PartUnchanged ==
    UNCHANGED <<save_folder, data, len, idx, idx_str, fig, alert, nSaves, lastOp,
                lastKey, streak, prevIdx, prevStr, plotCalls, plotted, err, plotArg,
                saveArg, saved, win, ann>>

\* lines 63-77: the locals of the call; ValueError when the series is missing
SaveLoad(t, dct) ==
    /\ thr[t].pc = "idle"
    /\ LET sym == Upper(dct.sym)
           df == LoaderGet(sym)
       IN  thr' = [thr EXCEPT ![t] =
                     IF SeriesMissing(df)
                     THEN [@ EXCEPT !.pc = "raised", !.dct = dct, !.df = df]
                     ELSE [@ EXCEPT !.pc = "loaded", !.dct = dct, !.df = df,
                                    !.colors = SaveColors(dct.pattern, SaveLines(dct)),
                                    !.save_path = SavePath(save_folder, sym, dct.pattern)]]
    /\ UNCHANGED <<plot_args, files>>
    /\ PartUnchanged

\* lines 79-88: self.plot_args.update(title, figscale, savefig)
SaveUpdateArgs(t) ==
    /\ thr[t].pc = "loaded"
    /\ plot_args' = [plot_args EXCEPT
                       !.title = Title(Upper(thr[t].dct.sym), thr[t].dct.pattern),
                       !.figscale = 12,
                       !.savefig = thr[t].save_path]
    /\ thr' = [thr EXCEPT ![t].pc = "titled"]
    /\ UNCHANGED files
    /\ PartUnchanged

\* line 90: self.plot_args["scale_padding"]["right"] = 0.8
SavePadding(t) ==
    /\ thr[t].pc = "titled"
    /\ plot_args' = [plot_args EXCEPT !.right = 8]
    /\ thr' = [thr EXCEPT ![t].pc = "padded"]
    /\ UNCHANGED files
    /\ PartUnchanged

\* line 92: self.plot_args["alines"].update({"alines": lines, "colors": colors})
SaveUpdateLines(t) ==
    /\ thr[t].pc = "padded"
    /\ plot_args' = [plot_args EXCEPT !.alines = SaveLines(thr[t].dct),
                                      !.colors = thr[t].colors]
    /\ thr' = [thr EXCEPT ![t].pc = "lined"]
    /\ UNCHANGED files
    /\ PartUnchanged

\* line 94: mpf.plot(df, **self.plot_args) reads the shared arguments
SaveRender(t) ==
    /\ thr[t].pc = "lined"
    /\ files' = {f \in files : f.path # plot_args.savefig} \cup {Image(plot_args)}
    /\ thr' = [thr EXCEPT ![t].pc = "done",
                          ![t].drawn = [df |-> thr[t].df, args |-> plot_args]]
    /\ UNCHANGED plot_args
    /\ PartUnchanged

InitThreads ==
    /\ Construct(<<>>, Folder)
    /\ win = NoWin
    /\ ann = NoAnn
    /\ thr = [t \in Threads |-> NoThread]

NextThreads ==
    \E t \in Threads :
        \/ \E dct \in ThreadRecords : SaveLoad(t, dct)
        \/ SaveUpdateArgs(t)
        \/ SavePadding(t)
        \/ SaveUpdateLines(t)
        \/ SaveRender(t)

SpecThreads == InitThreads /\ [][NextThreads]_vars

----------------------------------------------------------------------------
(* Properties of the review session, checked under Spec *)

KeyWas(key) == lastOp = "key" /\ lastKey = key

\* The record at list index i and whether the loader has its series
RecordAt(i) == data.list[i + 1]
HasSeries(i) == Upper(RecordAt(i).sym) \in LoaderSyms

\* The figure f is the chart of the record at index i
Shows(f, i) ==
    /\ f.open
    /\ f.rec = i
    /\ f.title = <<Upper(RecordAt(i).sym), "-", RecordAt(i).pattern, "-", "Daily">>
    /\ f.left = <<i, "of", len>>

\* C1: in a review session over a non-empty instance list the position stays
\* within 0..lastIndex after every sequence of key events.
C1_PositionInRange == (~data.none /\ Len(data.list) >= 1) => (0 <= idx /\ idx <= len)

\* a next pressed at the last index of a three-record list, absorbed there
C1_Witness ==
    /\ KeyWas("n")
    /\ len = 2
    /\ prevIdx = len
    /\ idx = len
    /\ fig.open

\* C2: the digit buffer is empty right after every non-digit command (next,
\* previous, confirm-jump, cancel), whatever the state the command is issued
\* in, the boundaries included.
C2_BufferClearedByCommands ==
    (lastOp = "key" /\ lastKey \in {"n", "p", "j", "escape"}) => idx_str = <<>>

\* C3: confirm-jump with a non-empty buffer denoting n: when n <= lastIndex the
\* position becomes n (n = 0 included), the buffer is cleared and plot() runs
\* once for the record at n, whose chart is shown when its series exists; when
\* n > lastIndex the position and the figure stay, the buffer and the status
\* are emptied and plot() is not run. With an empty buffer nothing changes.
C3_ConfirmJump ==
    [][ (lastOp' = "key" /\ lastKey' = "j") =>
          IF idx_str = <<>>
          THEN /\ UNCHANGED <<idx, idx_str, alert, fig, plot_args>>
               /\ plotCalls' = 0
          ELSE IF IntOf(idx_str) <= len
          THEN /\ idx' = IntOf(idx_str)
               /\ idx_str' = <<>>
               /\ plotCalls' = 1
               /\ plotted' = IntOf(idx_str)
               /\ HasSeries(IntOf(idx_str)) => Shows(fig', IntOf(idx_str))
          ELSE /\ idx' = idx
               /\ idx_str' = <<>>
               /\ alert' = <<>>
               /\ plotCalls' = 0
               /\ fig' = fig ]_vars

\* a jump to 0 from another position, typed with a leading zero
C3_Witness ==
    /\ KeyWas("j")
    /\ prevStr = <<"0", "0">>
    /\ prevIdx # 0
    /\ idx = 0
    /\ Shows(fig, 0)

\* C4: next at the last index leaves the position and the figure alone, runs
\* no plot() and sets the status to "At Last Chart", however often repeated.
C4_NextAtLast ==
    [][ (lastOp' = "key" /\ lastKey' = "n" /\ idx = len) =>
          /\ idx' = idx
          /\ plotCalls' = 0
          /\ fig' = fig
          /\ alert' = <<"At Last Chart">> ]_vars

\* two next events in a row, both at the last index of a longer list
C4_Witness ==
    /\ KeyWas("n")
    /\ streak >= 2
    /\ plotCalls = 0
    /\ len >= 1
    /\ idx = len
    /\ alert = <<"At Last Chart">>

\* C5: previous at index 0 leaves the position and the figure alone, runs no
\* plot() and sets the status to "At First Chart", however often repeated.
C5_PreviousAtFirst ==
    [][ (lastOp' = "key" /\ lastKey' = "p" /\ idx = 0) =>
          /\ idx' = idx
          /\ plotCalls' = 0
          /\ fig' = fig
          /\ alert' = <<"At First Chart">> ]_vars

\* two previous events in a row, both at index 0 of a longer list
C5_Witness ==
    /\ KeyWas("p")
    /\ streak >= 2
    /\ plotCalls = 0
    /\ len >= 1
    /\ idx = 0
    /\ alert = <<"At First Chart">>

\* C6: next below the last index adds exactly 1 to the position and previous
\* above 0 subtracts exactly 1; either runs plot() exactly once, for the record
\* at the new position, whose chart is shown when its series exists.
C6_StepByOne ==
    [][ /\ (lastOp' = "key" /\ lastKey' = "n" /\ idx < len) =>
             /\ idx' = idx + 1
             /\ plotCalls' = 1
             /\ plotted' = idx + 1
             /\ HasSeries(idx + 1) => Shows(fig', idx + 1)
        /\ (lastOp' = "key" /\ lastKey' = "p" /\ idx > 0) =>
             /\ idx' = idx - 1
             /\ plotCalls' = 1
             /\ plotted' = idx - 1
             /\ HasSeries(idx - 1) => Shows(fig', idx - 1) ]_vars

\* a next from 0 to 1 of 2 that put the chart of record 1 on screen
C6_Witness ==
    /\ KeyWas("n")
    /\ len = 2
    /\ prevIdx = 0
    /\ idx = 1
    /\ plotCalls = 1
    /\ Shows(fig, 1)

\* C7: after next, previous or confirm-jump either the position is unchanged
\* or the chart of the record at the new position is on screen; a failed
\* render leaves the position where it was.
C7_TransitionAtomic ==
    (lastOp = "key" /\ lastKey \in {"n", "p", "j"}) =>
        (idx = prevIdx \/ Shows(fig, idx))

----------------------------------------------------------------------------
(* Properties of the overlay, checked under SpecRender *)

\* C9: the chart of a record that is not a triangle, with N extra lines and M
\* primary lines, carries exactly N+M lines, the extra lines first and each
\* group in its own order; with at least one line there is one colour per
\* line, and from the second line on every colour differs from the first.
C9_NonTriangleOverlay ==
    (fig.open /\ RecordAt(fig.rec).pattern \notin {"Symmetric", "Ascending", "Descending"}) =>
        LET dct == RecordAt(fig.rec)
            N == Len(dct.extra_lines)
            M == Len(dct.lines)
        IN  /\ Len(fig.alines) = N + M
            /\ \A k \in 1..N : fig.alines[k] = dct.extra_lines[k]
            /\ \A k \in 1..M : fig.alines[N + k] = dct.lines[k]
            /\ ~fig.colors.single
            /\ N + M >= 1 => Len(fig.colors.seq) = N + M
            /\ \A k \in 2..(N + M) : fig.colors.seq[k] # fig.colors.seq[1]

\* the chart of a record with two extra and two primary lines
C9_Witness ==
    /\ fig.open
    /\ RecordAt(fig.rec).pattern = "VCP"
    /\ Len(RecordAt(fig.rec).extra_lines) = 2
    /\ Len(RecordAt(fig.rec).lines) = 2
    /\ Len(fig.alines) = 4

UniformColour(colors) == colors.single /\ Len(colors.seq) = 1

\* the pattern kind an image was written for, as its title and path name it
PatternOf(f) == f.title[3]

\* C10: for a Symmetric, Ascending or Descending record the colour handed to
\* the renderer is one single colour, whatever the number of lines, in the
\* chart of plot and in the image of save.
C10_TriangleUniformColour ==
    /\ (fig.open /\ RecordAt(fig.rec).pattern \in {"Symmetric", "Ascending", "Descending"}) =>
           UniformColour(fig.colors)
    /\ \A f \in files :
           PatternOf(f) \in {"Symmetric", "Ascending", "Descending"} =>
               UniformColour(f.colors)

\* the image of a triangle with two lines
C10_Witness ==
    \E f \in files : PatternOf(f) = "Ascending" /\ Len(f.alines) = 2

----------------------------------------------------------------------------
(* Properties of save, checked under SpecExport and SpecRender *)

\* C13 as claimed: images written for records that differ in symbol or in
\* pattern have different paths, so there are as many image files as distinct
\* (symbol, pattern) pairs written.
C13_DistinctPairsDistinctPaths ==
    /\ \A a, b \in saved :
           (a.sym # b.sym \/ a.pattern # b.pattern) => a.path # b.path
    /\ Cardinality(files) = Cardinality({<<a.sym, a.pattern>> : a \in saved})

\* C13, amended: images written for records that differ in pattern or in the
\* upper-cased symbol have different paths, so there are as many image files
\* as distinct (upper-cased symbol, pattern) pairs written.
C13_DistinctUpperPairsDistinctPaths ==
    /\ \A a, b \in saved :
           (Upper(a.sym) # Upper(b.sym) \/ a.pattern # b.pattern) => a.path # b.path
    /\ Cardinality(files) = Cardinality({<<Upper(a.sym), a.pattern>> : a \in saved})

\* two images, one of a symbol spelled with an underscore, of different patterns
C13_Witness ==
    /\ Cardinality(files) = 2
    /\ \E a, b \in saved :
           a.sym = "M_M" /\ b.sym = "TCS" /\ a.pattern = "UPTL" /\ b.pattern = "VCP"

\* C14: when the loader has no series for the record's symbol, plot and save
\* both end in an error raised to the caller, no figure is opened and no image
\* is written.
C14_MissingSeriesFails ==
    /\ (lastOp = "plot" /\ ~data.none /\ Upper(RecordAt(idx).sym) \notin LoaderSyms) =>
           /\ err = "ValueError"
           /\ ~fig.open
           /\ plot_args = InitPlotArgs(TRUE)
    /\ (lastOp = "save" /\ save_folder # NoFolder /\ Upper(saveArg.sym) \notin LoaderSyms) =>
           /\ err = "ValueError"
           /\ files = {}
           /\ plot_args = InitPlotArgs(FALSE)

\* a save of a record whose symbol the loader does not know
C14_Witness ==
    /\ lastOp = "save"
    /\ save_folder # NoFolder
    /\ saveArg.sym = "INFY"
    /\ err = "ValueError"

\* C15: the image save writes for a record carries the lines and colours the
\* interactive render builds for that record: extra_lines for a triangle,
\* extra_lines followed by lines otherwise.
C15_SaveOverlayAsPlot ==
    (lastOp = "save" /\ err = "none") =>
        \E f \in files :
            /\ f.path = plot_args.savefig
            /\ f.alines = (IF saveArg.pattern \in {"Symmetric", "Ascending", "Descending"}
                           THEN saveArg.extra_lines
                           ELSE saveArg.extra_lines \o saveArg.lines)
            /\ f.colors = PlotColors(saveArg.pattern, f.alines)

----------------------------------------------------------------------------
(* Further properties of the review session, checked under Spec *)

\* the colours of n >= 1 lines of a record that is not a triangle
FirstGreen(n) == [k \in 1..n |-> IF k = 1 THEN "green" ELSE "midnightblue"]

\* C17: the chart on screen is the chart of the record at the current
\* position: its lines, colours and title are those of that record, its left
\* title reads "{position} of {lastIndex}", and right after a render the alert
\* text is empty.
C17_ChartOfCurrentRecord ==
    /\ fig.open =>
         LET dct == RecordAt(idx)
             triangle == dct.pattern \in {"Symmetric", "Ascending", "Descending"}
         IN  /\ fig.rec = idx
             /\ fig.alines = (IF triangle THEN dct.extra_lines
                              ELSE dct.extra_lines \o dct.lines)
             /\ fig.colors = (IF triangle
                              THEN [single |-> TRUE, seq |-> <<"midnightblue">>]
                              ELSE [single |-> FALSE, seq |-> FirstGreen(Len(fig.alines))])
             /\ fig.title = <<Upper(dct.sym), "-", dct.pattern, "-", "Daily">>
             /\ fig.left = <<idx, "of", len>>
    /\ (plotCalls = 1 /\ err = "none") => (fig.open /\ alert = <<>>)

\* the three-line chart of record 1, put up by a previous from the two-line
\* triangle at 2 while digits were pending
C17_Witness ==
    /\ KeyWas("p")
    /\ prevIdx = 2
    /\ prevStr # <<>>
    /\ idx = 1
    /\ RecordAt(2).pattern = "Symmetric"
    /\ RecordAt(1).pattern = "VCP"
    /\ fig.open
    /\ Len(fig.alines) = 3

\* C18: a digit key appends itself to the end of the buffer and sets the
\* status to the new buffer followed by "j"; escape empties the buffer and the
\* status; neither changes the position, the figure, or runs plot().
C18_DigitAndCancel ==
    [][ /\ (lastOp' = "key" /\ lastKey' \in {"0", "1", "2", "3", "4", "5", "6", "7", "8", "9"}) =>
             /\ idx_str' = idx_str \o <<lastKey'>>
             /\ alert' = idx_str \o <<lastKey', "j">>
             /\ idx' = idx
             /\ plotCalls' = 0
             /\ fig' = fig
        /\ (lastOp' = "key" /\ lastKey' = "escape") =>
             /\ idx_str' = <<>>
             /\ alert' = <<>>
             /\ idx' = idx
             /\ plotCalls' = 0
             /\ fig' = fig ]_vars

\* a second digit typed away from position 0
C18_Witness ==
    /\ KeyWas("2")
    /\ prevStr = <<"1">>
    /\ idx_str = <<"1", "2">>
    /\ alert = <<"1", "2", "j">>
    /\ idx = 1

\* C19: plot(i) with an index i of the list makes i the position and resolves
\* the record at i, i = 0 included; plot() keeps the position and resolves the
\* record there.
C19_PlotIndex ==
    (lastOp = "plot" /\ ~data.none) =>
        IF plotArg # NoneIdx
        THEN idx = plotArg /\ plotted = plotArg
        ELSE idx = prevIdx /\ plotted = prevIdx

----------------------------------------------------------------------------
(* Properties of the view, checked under SpecWindow *)

\* the position in the series of the bar with timestamp t
PositionOf(t) == t - 1000

\* C11: in expand mode, for pattern bounds at positions i <= j of a series of
\* L bars, the series shown is exactly the bars at positions max(i-120, 0) up
\* to, not including, min(j+120, L), in order; in default mode it is the full
\* series.
C11_ExpandWindow ==
    win.done =>
        LET L == Len(win.df)
            i == PositionOf(win.start)
            j == PositionOf(win.end)
            lo == IF i - 120 > 0 THEN i - 120 ELSE 0
            hi == IF j + 120 < L THEN j + 120 ELSE L
        IN  IF win.mode = "expand"
            THEN /\ Len(win.view) = hi - lo
                 /\ \A k \in 1..(hi - lo) : win.view[k] = 1000 + lo + k - 1
            ELSE win.view = win.df

\* a series shorter than 240 bars clamped at both ends
C11_Witness ==
    /\ win.done
    /\ win.mode = "expand"
    /\ Len(win.df) = 239
    /\ PositionOf(win.start) = 119
    /\ PositionOf(win.end) = 120
    /\ Len(win.view) = 239

----------------------------------------------------------------------------
(* Properties of the annotations, checked under SpecAnnotate *)

Alphabet == <<"A", "B", "C", "D", "E", "F", "G", "H", "I", "J", "K", "L", "M",
              "N", "O", "P", "Q", "R", "S", "T", "U", "V", "W", "X", "Y", "Z">>

\* the first anchor of entry n of the annotation source
FirstAnchor(n) == IF ann.lines[n].kind = "segment" THEN ann.lines[n].pts[1]
                  ELSE ann.lines[n].pt

\* the labels are one per source entry, lettered A, B, ... in source order and
\* placed on the entry's first anchor, and one for the last bar with the next
\* letter; no letter is used twice
LabelsLettered ==
    LET k == Len(ann.lines)
    IN  /\ Len(ann.labels) = k + 1
        /\ \A n \in 1..k :
               \E l \in 1..(k + 1) :
                   /\ ann.labels[l].text = Alphabet[n]
                   /\ ann.labels[l].pos = FirstAnchor(n)[1] - 1000
                   /\ ann.labels[l].price = FirstAnchor(n)[2]
        /\ \E l \in 1..(k + 1) :
               /\ ann.labels[l].text = Alphabet[k + 1]
               /\ ann.labels[l].pos = Len(ann.df) - 1
        /\ \A l, m \in 1..(k + 1) : l # m => ann.labels[l].text # ann.labels[m].text

\* C12 as claimed: for every annotation source of length k the call draws k+1
\* labels, lettered as above.
C12_LabelsForEverySource == ann.done => LabelsLettered

\* C12, amended: for every annotation source of length k <= 12 the call draws
\* k+1 labels, lettered as above.
C12_LabelsUpToTwelve == (ann.done /\ Len(ann.lines) <= 12) => LabelsLettered

\* twelve entries, lines and touch points mixed, lettered A to L, the last bar M
C12_Witness ==
    /\ ann.done
    /\ Len(ann.lines) = 12
    /\ ann.lines[1].kind = "point"
    /\ ann.lines[2].kind = "segment"
    /\ ann.err = "none"
    /\ ann.labels[1].text = "M"
    /\ ann.labels[13].text = "L"

----------------------------------------------------------------------------
(* Properties of concurrent save calls, checked under SpecThreads *)

\* C16: every image is rendered with the lines, colours, title and path of
\* the record of its own save call, whatever other save calls run meanwhile.
C16_RenderOwnArguments ==
    \A t \in Threads :
        thr[t].pc = "done" =>
            LET dct == thr[t].dct
                args == thr[t].drawn.args
            IN  /\ args.alines = dct.lines
                /\ args.colors = thr[t].colors
                /\ args.title = <<Upper(dct.sym), "-", dct.pattern, "-", "Daily">>
                /\ args.savefig = thr[t].save_path

====
